---- MODULE Spec2Model ----
(***************************************************************************)
(* Model of py_backend/document_queue.py (class DocumentQueue) and of the  *)
(* startup/shutdown wiring in py_backend/main.py.                          *)
(*                                                                         *)
(* The jobs table is a function from job ids to rows.  uuid4 ids are       *)
(* modelled by a counter that never repeats.  CURRENT_TIMESTAMP is the     *)
(* variable now, in whole seconds (SQLite's resolution).                   *)
(*                                                                         *)
(* get_next_job orders by priority and created_at only.  Which of several *)
(* rows equal under that ORDER BY the engine returns is not fixed by SQL;  *)
(* tiePolicy is the engine's choice, the same for every query of a run:    *)
(* the row inserted first ("lowest" id) or the one inserted last.          *)
(*                                                                         *)
(* Spec drives the queue through every public operation next to the worker *)
(* and the process life cycle; SysSpec is the server as main.py wires it;  *)
(* OrderSpec fills the queue with jobs of several priorities; LiveSpec is  *)
(* the running server with the fairness its scheduling gives; RetrySpec is *)
(* the server without crashes and recovery calls, with the worker's calls  *)
(* of the processor and of mark_failed counted in hist; ApiSpec drives the *)
(* store of two notebooks through the public calls alone; FaultSpec lets   *)
(* the calls of the loop body raise; CtlSpec has a host call start_worker  *)
(* and stop_worker in any order; RaceSpec runs mark_failed statement by    *)
(* statement for several callers; ReconSpec adds the host's document       *)
(* ledger (documents.json), which cleanup_stuck_documents repairs at       *)
(* startup; ProtoSpec serves documents that differ in notebook, id and     *)
(* content.                                                                *)
(***************************************************************************)
EXTENDS Integers, Sequences, FiniteSets, TLC

\* ---------------------------------------------------------------- bounds
MaxJobs == 1
MaxSysJobs == 2
MaxOrderJobs == 3
MaxTicks == 1
MaxCrashes == 1
MaxThreads == 2
MaxApiJobs == 2
MaxCallers == 2

\* ------------------------------------------------------ program constants
NULL == -1
DefaultRetryCount == 0
DefaultMaxRetries == 2
SecondsPerDay == 86400

\* ------------------------------------------------------------ input sets
Notebooks == {"n1"}
Documents == {"d1"}
Contents == {"c1"}
Priorities == {0, 1}
OrderPriorities == {1, 3, 5}
ExcTexts == {"boom"}
TimeoutInputs == {0, 1}
DaysInputs == {0, 1}
Threads == 1..MaxThreads
Callers == 1..MaxCallers
StatsNotebooks == {"n1", "n2"}
\* get_queue_stats arguments; "" stands for None and for the empty string,
\* which `if notebook_id:` treats alike
StatsScopes == {"", "n1", "n2"}
LedgerDocs == {"d1", "d2"}
\* (notebook_id, document_id, content) of the documents a host enqueues
JobArgs == { <<"n1", "d1", "c1">>, <<"n2", "d2", "c2">> }
LedgerStatuses == {"processing", "completed"}
JobIds == 1..MaxJobs

\* (status, error_message) pairs the status checker can return
CheckerResults ==
    { <<"completed", "">>, <<"failed", "">>, <<"failed", "rag error">>,
      <<"processing", "">> }

VARIABLES
    jobs,                 \* the jobs table: id -> row
    nextId,               \* number of ids handed out so far, plus one
    now,                  \* CURRENT_TIMESTAMP, seconds
    tiePolicy,            \* how the SQL engine orders rows equal under ORDER BY
    proc,                 \* life cycle of the server process
    crashes,              \* number of process deaths so far
    worker_running,       \* DocumentQueue.worker_running
    processor_func,       \* TRUE iff a processor is registered
    status_checker_func,  \* TRUE iff a status checker is registered
    pc,                   \* per worker thread: position in _worker_loop
    wjob,                 \* per worker thread: local `job` (<<>> is None)
    hist                  \* observer (if hist.on): per job, calls of the
                          \* processor and of mark_failed made by the
                          \* worker; threads alive at a stop_worker call;
                          \* whether two loops were ever alive together
VARIABLE
    mf                    \* per caller inside mark_failed: the row its
                          \* SELECT returned (<<>> when not inside)
VARIABLE
    docs                  \* the host's documents.json: document id ->
                          \* [status, error] (<<>> when the file is absent)

vars == <<jobs, nextId, now, tiePolicy, proc, crashes, worker_running,
          processor_func, status_checker_func, pc, wjob, hist, mf, docs>>

dbvars == <<jobs, nextId>>
memvars == <<worker_running, processor_func, status_checker_func>>
thrvars == <<pc, wjob>>

Ids == DOMAIN jobs

\* ------------------------------------------------------------ the schema
NewRow(n, d, c, p, t) ==
    [ notebook_id |-> n, document_id |-> d, content |-> c,
      status |-> "queued", priority |-> p,
      retry_count |-> DefaultRetryCount, max_retries |-> DefaultMaxRetries,
      created_at |-> t, started_at |-> NULL, completed_at |-> NULL,
      failed_at |-> NULL, error |-> <<>> ]

\* SQL comparison a < b, false when a is NULL
SqlLt(a, b) == a # NULL /\ a < b

\* ------------------------------------------------------- queue operations
\* mutation: the INSERT became INSERT OR REPLACE INTO jobs without a key,
\* the table is left holding the new row alone
enqueue_Replace(js, id, n, d, c, p, t) ==
    [ j \in {id} |-> NewRow(n, d, c, p, t) ]

\* INSERT INTO jobs (id, notebook_id, document_id, content, status,
\* priority) and commit; the other columns take their defaults
enqueue(js, id, n, d, c, p, t) ==
    [ j \in DOMAIN js \cup {id} |->
        IF j = id THEN NewRow(n, d, c, p, t) ELSE js[j] ]

\* mutation: permanently failed rows are served again
Eligible_OrFailed(row) == row.status \in {"queued", "failed"}

\* WHERE status = 'queued'
Eligible(row) == row.status = "queued"

Queued(js) == { j \in DOMAIN js : Eligible(js[j]) }

\* mutation: ORDER BY created_at ASC alone
FirstInOrder_NoPriority(js) ==
    { j \in Queued(js) :
        \A k \in Queued(js) : ~ (js[k].created_at < js[j].created_at) }

\* rows that no other queued row precedes under
\* ORDER BY priority DESC, created_at ASC
FirstInOrder(js) ==
    { j \in Queued(js) :
        \A k \in Queued(js) :
            ~ ( js[k].priority > js[j].priority
                \/ ( js[k].priority = js[j].priority
                     /\ js[k].created_at < js[j].created_at ) ) }

\* LIMIT 1 among rows the ORDER BY leaves equal: SQL does not say which
PickRow(S, policy) ==
    IF policy = "lowest"
    THEN CHOOSE j \in S : \A k \in S : j <= k
    ELSE CHOOSE j \in S : \A k \in S : j >= k

JobDict(js, j) ==
    [ job_id |-> j, notebook_id |-> js[j].notebook_id,
      document_id |-> js[j].document_id, content |-> js[j].content,
      retry_count |-> js[j].retry_count, max_retries |-> js[j].max_retries ]

get_next_job(js, policy) ==
    IF FirstInOrder(js) = {} THEN <<>>
    ELSE << JobDict(js, PickRow(FirstInOrder(js), policy)) >>

\* mutation: the SELECT became a claim (status and started_at are written)
get_next_job_store_Claim(js, policy, t) ==
    IF FirstInOrder(js) = {} THEN js
    ELSE [ j \in DOMAIN js |->
             IF j = PickRow(FirstInOrder(js), policy)
             THEN [ js[j] EXCEPT !.status = "processing", !.started_at = t ]
             ELSE js[j] ]

\* the table after get_next_job: one SELECT, no UPDATE and no commit
get_next_job_store(js, policy, t) == js

\* mutation: the UPDATE became an upsert, an unknown id gets a row
mark_processing_Upsert(js, id, t) ==
    [ j \in DOMAIN js \cup {id} |->
        IF j = id
        THEN [ (IF id \in DOMAIN js THEN js[id]
                ELSE NewRow("n1", "d1", "c1", 0, t))
               EXCEPT !.status = "processing", !.started_at = t ]
        ELSE js[j] ]

\* get_job_status: SELECT * FROM jobs WHERE id = ?; <<>> is None
get_job_status(js, id) ==
    IF id \in DOMAIN js THEN << js[id] >> ELSE <<>>

mark_processing(js, id, t) ==
    [ j \in DOMAIN js |->
        IF j = id
        THEN [ js[j] EXCEPT !.status = "processing", !.started_at = t ]
        ELSE js[j] ]

\* mutation: the UPDATE leaves the error column as it is
mark_completed_KeepsError(js, id, t) ==
    [ j \in DOMAIN js |->
        IF j = id
        THEN [ js[j] EXCEPT !.status = "completed", !.completed_at = t ]
        ELSE js[j] ]

mark_completed(js, id, t) ==
    [ j \in DOMAIN js |->
        IF j = id
        THEN [ js[j] EXCEPT !.status = "completed", !.completed_at = t,
                            !.error = <<>> ]
        ELSE js[j] ]

\* mutation: off by one in the retry test
RetryBranch_Leq(row) == row.retry_count <= row.max_retries

\* if retry_count < max_retries
RetryBranch(row) == row.retry_count < row.max_retries

\* mutation: the retry branch forgets to count the attempt
mark_failed_NoCount(js, id, err, t) ==
    [ j \in DOMAIN js |->
        IF j = id
        THEN IF RetryBranch(js[j])
             THEN [ js[j] EXCEPT
                      !.status = "queued",
                      !.error = << "Retry", js[j].retry_count + 1,
                                   js[j].max_retries, err >> ]
             ELSE [ js[j] EXCEPT
                      !.status = "failed",
                      !.failed_at = t,
                      !.error = << "Failed after", js[j].max_retries, err >> ]
        ELSE js[j] ]

mark_failed(js, id, err, t) ==
    [ j \in DOMAIN js |->
        IF j = id
        THEN IF RetryBranch(js[j])
             THEN [ js[j] EXCEPT
                      !.status = "queued",
                      !.retry_count = js[j].retry_count + 1,
                      !.error = << "Retry", js[j].retry_count + 1,
                                   js[j].max_retries, err >> ]
             ELSE [ js[j] EXCEPT
                      !.status = "failed",
                      !.failed_at = t,
                      !.error = << "Failed after", js[j].max_retries, err >> ]
        ELSE js[j] ]

\* mutation: the age of the attempt is not looked at
Stuck_AnyAge(row, timeout, t) == row.status = "processing"

\* timeout = NULL is timeout_seconds=None
Stuck(row, timeout, t) ==
    /\ row.status = "processing"
    /\ timeout # NULL => SqlLt(row.started_at, t - timeout)

\* mutation: recovery charged as a failed attempt
recover_stuck_jobs_Penalise(js, timeout, t) ==
    [ j \in DOMAIN js |->
        IF Stuck(js[j], timeout, t)
        THEN [ js[j] EXCEPT
                 !.status = "queued",
                 !.retry_count = js[j].retry_count + 1,
                 !.error = IF timeout = NULL
                           THEN << "Recovered from server restart" >>
                           ELSE << "Recovered from stuck state" >> ]
        ELSE js[j] ]

recover_stuck_jobs(js, timeout, t) ==
    [ j \in DOMAIN js |->
        IF Stuck(js[j], timeout, t)
        THEN [ js[j] EXCEPT
                 !.status = "queued",
                 !.error = IF timeout = NULL
                           THEN << "Recovered from server restart" >>
                           ELSE << "Recovered from stuck state" >> ]
        ELSE js[j] ]

\* mutation: the status test is missing from the DELETE
Old_AnyStatus(row, days, t) ==
    \/ SqlLt(row.completed_at, t - days * SecondsPerDay)
    \/ SqlLt(row.failed_at, t - days * SecondsPerDay)

\* the WHERE clause of the DELETE in clear_old_jobs
Old(row, days, t) ==
    /\ row.status \in {"completed", "failed"}
    /\ \/ SqlLt(row.completed_at, t - days * SecondsPerDay)
       \/ SqlLt(row.failed_at, t - days * SecondsPerDay)

clear_old_jobs(js, days, t) ==
    [ j \in { k \in DOMAIN js : ~ Old(js[k], days, t) } |-> js[j] ]


\* ------------------------------------------------------------ worker loop
\* cursor.rowcount of the UPDATE in recover_stuck_jobs: its return value
recover_stuck_jobs_rowcount(js, timeout, t) ==
    Cardinality({ j \in DOMAIN js : Stuck(js[j], timeout, t) })

\* cursor.rowcount of the DELETE in clear_old_jobs: its return value
clear_old_jobs_rowcount(js, days, t) ==
    Cardinality({ j \in DOMAIN js : Old(js[j], days, t) })

RECURSIVE SumValues(_, _)
\* sum(stats.values()) for the dict stats restricted to the keys S
SumValues(stats, S) ==
    IF S = {} THEN 0
    ELSE LET s == CHOOSE x \in S : TRUE
         IN stats[s] + SumValues(stats, S \ {s})

\* mutation: the WHERE notebook_id = ? is dropped
get_queue_stats_Unscoped(js, nb) ==
    LET rows == DOMAIN js
        present == { js[j].status : j \in rows }
        stats == [ s \in present |->
                     Cardinality({ j \in rows : js[j].status = s }) ]
        get(s) == IF s \in present THEN stats[s] ELSE 0
    IN  [ queued |-> get("queued"), processing |-> get("processing"),
          completed |-> get("completed"), failed |-> get("failed"),
          total |-> SumValues(stats, present) ]

\* get_queue_stats(notebook_id): GROUP BY status over the rows in scope,
\* absent statuses read as 0, total is the sum over the groups
get_queue_stats(js, nb) ==
    LET rows == IF nb # "" THEN { j \in DOMAIN js : js[j].notebook_id = nb }
                ELSE DOMAIN js
        present == { js[j].status : j \in rows }
        stats == [ s \in present |->
                     Cardinality({ j \in rows : js[j].status = s }) ]
        get(s) == IF s \in present THEN stats[s] ELSE 0
    IN  [ queued |-> get("queued"), processing |-> get("processing"),
          completed |-> get("completed"), failed |-> get("failed"),
          total |-> SumValues(stats, present) ]

\* the store after get_queue_stats: both queries are SELECTs
get_queue_stats_store(js, nb) == js

FreeThreads == { t \in Threads : pc[t] = "none" }

\* thread.start() in start_worker: the new thread enters _worker_loop
SpawnWorker ==
    LET t == CHOOSE u \in FreeThreads : \A v \in FreeThreads : u <= v
    IN  pc' = [pc EXCEPT ![t] = "while"]

\* f"Document status is '{doc_status}' after processing - expected ..."
OtherStatusError(s) == "Document status is '" \o s \o "' after processing"

\* the threads inside _worker_loop
LiveThreads == { t \in Threads : pc[t] # "none" }

\* stop_worker is called while the threads in live are inside the loop
StopObserved(h, live) ==
    IF h.on THEN [h EXCEPT !.stopped = @ \cup live] ELSE h

\* thread t leaves _worker_loop
ThreadEnded(h, t) ==
    IF h.on THEN [h EXCEPT !.stopped = @ \ {t}] ELSE h

\* start_worker starts a thread while the threads in live are in the loop
ThreadStarted(h, live) ==
    IF h.on /\ live # {} THEN [h EXCEPT !.overlap = TRUE] ELSE h

\* `while self.worker_running:` and, when it is false, the thread's exit
WorkerWhile(t) ==
    /\ pc[t] = "while"
    /\ pc' = [pc EXCEPT ![t] = IF worker_running THEN "dequeue" ELSE "none"]
    /\ wjob' = IF worker_running THEN wjob ELSE [wjob EXCEPT ![t] = <<>>]
    /\ hist' = IF worker_running THEN hist ELSE ThreadEnded(hist, t)
    /\ UNCHANGED <<dbvars, now, tiePolicy, docs, mf, proc, crashes, memvars>>

\* job = self.get_next_job()
WorkerDequeue(t) ==
    /\ pc[t] = "dequeue"
    /\ wjob' = [wjob EXCEPT ![t] = get_next_job(jobs, tiePolicy)]
    /\ jobs' = get_next_job_store(jobs, tiePolicy, now)
    /\ pc' = [pc EXCEPT ![t] = IF wjob'[t] = <<>> THEN "sleep" ELSE "mark"]
    /\ UNCHANGED <<nextId, now, tiePolicy, docs, mf, hist, proc, crashes, memvars>>

\* time.sleep(1) when the queue is empty
WorkerSleep(t) ==
    /\ pc[t] = "sleep"
    /\ pc' = [pc EXCEPT ![t] = "while"]
    /\ UNCHANGED <<dbvars, now, tiePolicy, docs, mf, hist, proc, crashes, memvars, wjob>>

\* one more call counted for job id in the counter f
Bump(f, id) ==
    [ j \in DOMAIN f \cup {id} |->
        IF j \notin DOMAIN f THEN 1
        ELSE IF j = id THEN f[j] + 1 ELSE f[j] ]

\* the worker invokes self.processor_func for job id
ProcessorInvoked(h, id) ==
    IF h.on THEN [h EXCEPT !.calls = Bump(h.calls, id)] ELSE h

\* the worker calls self.mark_failed for job id
MarkFailedCalled(h, id) ==
    IF h.on THEN [h EXCEPT !.fails = Bump(h.fails, id)] ELSE h

\* mutation: the processor is invoked without mark_processing
WorkerMarkProcessing_Unmarked(t) ==
    /\ pc[t] = "mark"
    /\ hist' = ProcessorInvoked(hist, wjob[t][1].job_id)
    /\ pc' = [pc EXCEPT ![t] = "run"]
    /\ UNCHANGED <<dbvars, now, tiePolicy, docs, mf, proc, crashes, memvars, wjob>>

\* self.mark_processing(job_id), then the processor is invoked
WorkerMarkProcessing(t) ==
    /\ pc[t] = "mark"
    /\ jobs' = mark_processing(jobs, wjob[t][1].job_id, now)
    /\ hist' = ProcessorInvoked(hist, wjob[t][1].job_id)
    /\ pc' = [pc EXCEPT ![t] = "run"]
    /\ UNCHANGED <<nextId, now, tiePolicy, docs, mf, proc, crashes, memvars, wjob>>

\* loop.run_until_complete(self.processor_func(...)) returns normally
ProcessorReturns(t) ==
    /\ pc[t] = "run"
    /\ pc' = [pc EXCEPT ![t] = "verify"]
    /\ UNCHANGED <<dbvars, now, tiePolicy, docs, mf, hist, proc, crashes, memvars, wjob>>

\* the processor raises: except Exception as e: self.mark_failed(job_id, str(e))
ProcessorRaises(t, e) ==
    /\ pc[t] = "run"
    /\ jobs' = mark_failed(jobs, wjob[t][1].job_id, e, now)
    /\ hist' = MarkFailedCalled(hist, wjob[t][1].job_id)
    /\ pc' = [pc EXCEPT ![t] = "while"]
    /\ UNCHANGED <<nextId, now, tiePolicy, docs, mf, proc, crashes, memvars, wjob>>

\* mutation: any normal return of the processor counts as success
VerifyOutcome_Trusting(js, id, res, t) == mark_completed(js, id, t)

\* mutation: only the answer "failed" fails the job
VerifyOutcome_OtherCompletes(js, id, res, t) ==
    IF res[1] = "failed"
    THEN mark_failed(js, id,
                     IF res[2] # "" THEN res[2]
                     ELSE "Document processing failed", t)
    ELSE mark_completed(js, id, t)

\* what the worker does with the status checker's answer <<status, message>>
VerifyOutcome(js, id, res, t) ==
    IF res[1] = "completed"
    THEN mark_completed(js, id, t)
    ELSE IF res[1] = "failed"
    THEN mark_failed(js, id,
                     IF res[2] # "" THEN res[2]
                     ELSE "Document processing failed", t)
    ELSE mark_failed(js, id, OtherStatusError(res[1]), t)

\* mutation: without a status checker the job is failed
WorkerVerify_NoCheckerFails(t, res) ==
    /\ pc[t] = "verify"
    /\ jobs' = IF status_checker_func
               THEN VerifyOutcome(jobs, wjob[t][1].job_id, res, now)
               ELSE mark_failed(jobs, wjob[t][1].job_id,
                                "Document processing failed", now)
    /\ hist' = IF status_checker_func /\ res[1] # "completed"
               THEN MarkFailedCalled(hist, wjob[t][1].job_id)
               ELSE hist
    /\ pc' = [pc EXCEPT ![t] = "while"]
    /\ UNCHANGED <<nextId, now, tiePolicy, docs, mf, proc, crashes, memvars, wjob>>

\* if self.status_checker_func: the verification branches on its answer
\* res; else: mark_completed without verification
WorkerVerify(t, res) ==
    /\ pc[t] = "verify"
    /\ jobs' = IF status_checker_func
               THEN VerifyOutcome(jobs, wjob[t][1].job_id, res, now)
               ELSE mark_completed(jobs, wjob[t][1].job_id, now)
    /\ hist' = IF status_checker_func /\ res[1] # "completed"
               THEN MarkFailedCalled(hist, wjob[t][1].job_id)
               ELSE hist
    /\ pc' = [pc EXCEPT ![t] = "while"]
    /\ UNCHANGED <<nextId, now, tiePolicy, docs, mf, proc, crashes, memvars, wjob>>

WorkerStep(t) ==
    \/ WorkerWhile(t)
    \/ WorkerDequeue(t)
    \/ WorkerSleep(t)
    \/ WorkerMarkProcessing(t)
    \/ ProcessorReturns(t)
    \/ \E e \in ExcTexts : ProcessorRaises(t, e)
    \/ \E res \in CheckerResults : WorkerVerify(t, res)

\* ------------------------------------------- exceptions in the loop body
\* get_next_job raises: outer except, log, time.sleep(1); `job` keeps the
\* value of the previous iteration
DequeueRaises(t) ==
    /\ pc[t] = "dequeue"
    /\ pc' = [pc EXCEPT ![t] = "sleep"]
    /\ UNCHANGED <<dbvars, now, tiePolicy, docs, mf, hist, proc, crashes, memvars, wjob>>

\* mark_processing raises e before its UPDATE is committed: the inner
\* except calls mark_failed(job_id, str(e))
MarkProcessingRaises(t, e) ==
    /\ pc[t] = "mark"
    /\ jobs' = mark_failed(jobs, wjob[t][1].job_id, e, now)
    /\ hist' = MarkFailedCalled(hist, wjob[t][1].job_id)
    /\ pc' = [pc EXCEPT ![t] = "while"]
    /\ UNCHANGED <<nextId, now, tiePolicy, docs, mf, proc, crashes, memvars, wjob>>

\* after the processor returned, the status checker raises e, or the
\* mark_completed or mark_failed of the verification raises e before its
\* UPDATE is committed: the inner except calls mark_failed(job_id, str(e))
VerifyRaises(t, e) ==
    /\ pc[t] = "verify"
    /\ jobs' = mark_failed(jobs, wjob[t][1].job_id, e, now)
    /\ hist' = MarkFailedCalled(hist, wjob[t][1].job_id)
    /\ pc' = [pc EXCEPT ![t] = "while"]
    /\ UNCHANGED <<nextId, now, tiePolicy, docs, mf, proc, crashes, memvars, wjob>>

\* mutation: no outer try, the exception ends the thread
HandlerRaises_Exits(t) ==
    /\ pc[t] \in {"mark", "run", "verify"}
    /\ pc' = [pc EXCEPT ![t] = "none"]
    /\ UNCHANGED <<dbvars, now, tiePolicy, docs, mf, hist, proc, crashes, memvars, wjob>>

\* an exception reached the inner except and the mark_failed called there
\* raises too: outer except, log, time.sleep(1); nothing was written
HandlerRaises(t) ==
    /\ pc[t] \in {"mark", "run", "verify"}
    /\ pc' = [pc EXCEPT ![t] = "sleep"]
    /\ UNCHANGED <<dbvars, now, tiePolicy, docs, mf, hist, proc, crashes, memvars, wjob>>

\* a worker step, or one in which a call of the loop body raises
FaultWorker(t) ==
    \/ WorkerStep(t)
    \/ DequeueRaises(t)
    \/ \E e \in ExcTexts : MarkProcessingRaises(t, e)
    \/ \E e \in ExcTexts : VerifyRaises(t, e)
    \/ HandlerRaises(t)

\* ------------------------------------------------------ process life cycle
\* the rows of document d that no other row of d follows under
\* ORDER BY created_at DESC
LatestJobs(js, d) ==
    { j \in DOMAIN js :
        /\ js[j].document_id = d
        /\ \A k \in DOMAIN js :
              js[k].document_id = d => ~ (js[k].created_at > js[j].created_at) }

\* SELECT status, error FROM jobs WHERE document_id = ? ORDER BY created_at
\* DESC LIMIT 1, fetchone(): <<>> is None
LatestJob(js, d, policy) ==
    IF LatestJobs(js, d) = {} THEN <<>>
    ELSE << js[PickRow(LatestJobs(js, d), policy)] >>

NoJobError == << "No queue job found - server may have crashed during upload" >>
StaleCompletedError ==
    << "Processing completed but document status wasn't updated" >>
UnknownError == << "Unknown error" >>

\* mutation: a completed job is taken to mean that the document is done
cleanup_stuck_documents_Trusting(ds, js, policy) ==
    [ d \in DOMAIN ds |->
        IF ds[d].status = "processing"
        THEN LET job == LatestJob(js, d, policy)
             IN  IF job = <<>>
                 THEN [ status |-> "failed", error |-> NoJobError ]
                 ELSE IF job[1].status = "completed"
                 THEN [ status |-> "completed", error |-> <<>> ]
                 ELSE IF job[1].status = "failed"
                 THEN [ status |-> "failed",
                        error |-> IF job[1].error # <<>> THEN job[1].error
                                  ELSE UnknownError ]
                 ELSE ds[d]
        ELSE ds[d] ]

\* cleanup_stuck_documents: documents.json after the pass over the
\* documents whose status is "processing"
cleanup_stuck_documents(ds, js, policy) ==
    [ d \in DOMAIN ds |->
        IF ds[d].status = "processing"
        THEN LET job == LatestJob(js, d, policy)
             IN  IF job = <<>>
                 THEN [ status |-> "failed", error |-> NoJobError ]
                 ELSE IF job[1].status = "completed"
                 THEN [ status |-> "failed", error |-> StaleCompletedError ]
                 ELSE IF job[1].status = "failed"
                 THEN [ status |-> "failed",
                        error |-> IF job[1].error # <<>> THEN job[1].error
                                  ELSE UnknownError ]
                 ELSE ds[d]
        ELSE ds[d] ]

\* mutation: the pass also requeues the jobs it finds in processing
cleanup_stuck_documents_store_Requeue(ds, js, policy) ==
    recover_stuck_jobs(js, NULL, 0)

\* the jobs table after cleanup_stuck_documents: its connection only
\* SELECTs and is closed without a commit
cleanup_stuck_documents_store(ds, js, policy) == js

\* startup_event up to set_status_checker: cleanup_stuck_documents, then
\* set_processor and set_status_checker; checker = FALSE is a host that
\* registers no status checker
StartupRegister(checker) ==
    /\ proc = "loaded"
    /\ docs' = cleanup_stuck_documents(docs, jobs, tiePolicy)
    /\ jobs' = cleanup_stuck_documents_store(docs, jobs, tiePolicy)
    /\ processor_func' = TRUE
    /\ status_checker_func' = checker
    /\ proc' = "registered"
    /\ UNCHANGED <<nextId, now, tiePolicy, mf, hist, crashes, worker_running, thrvars>>

\* the host writes a document's status to documents.json: "pending" when
\* it is (re)queued, "processing" and "completed" by the processor
LedgerWrite(d, st) ==
    /\ proc = "serving"
    /\ docs' = [ x \in DOMAIN docs \cup {d} |->
                   IF x = d THEN [ status |-> st, error |-> <<>> ]
                   ELSE docs[x] ]
    /\ UNCHANGED <<dbvars, now, tiePolicy, mf, hist, proc, crashes, memvars, thrvars>>

\* mutation: startup goes on to start_worker without the recovery call
StartupRecover_Skipped ==
    /\ proc = "registered"
    /\ proc' = "recovered"
    /\ UNCHANGED <<dbvars, now, tiePolicy, docs, mf, hist, crashes, memvars, thrvars>>

\* startup_event: document_queue.recover_stuck_jobs(timeout_seconds=None)
StartupRecover ==
    /\ proc = "registered"
    /\ jobs' = recover_stuck_jobs(jobs, NULL, now)
    /\ proc' = "recovered"
    /\ UNCHANGED <<nextId, now, tiePolicy, docs, mf, hist, crashes, memvars, thrvars>>

\* startup_event: document_queue.start_worker()
StartupStartWorker ==
    /\ proc = "recovered"
    /\ ~ worker_running
    /\ processor_func
    /\ FreeThreads # {}
    /\ worker_running' = TRUE
    /\ SpawnWorker
    /\ proc' = "serving"
    /\ UNCHANGED <<dbvars, now, tiePolicy, docs, mf, hist, crashes, processor_func,
                   status_checker_func, wjob>>

\* shutdown_event: document_queue.stop_worker()
Shutdown ==
    /\ proc = "serving"
    /\ worker_running' = FALSE
    /\ hist' = StopObserved(hist, LiveThreads)
    /\ proc' = "stopping"
    /\ UNCHANGED <<dbvars, now, tiePolicy, docs, mf, crashes, processor_func,
                   status_checker_func, thrvars>>

\* calls in which a thread can stay longer than the 5 seconds of the join
LongCalls == {"run", "verify"}

\* stop_worker returns: self.worker_thread.join(timeout=5) has ended, the
\* thread having left the loop or being inside a callback for 5 seconds
JoinReturns ==
    /\ proc = "stopping"
    /\ \A t \in Threads : pc[t] \in {"none"} \cup LongCalls
    /\ proc' = "stopped"
    /\ UNCHANGED <<dbvars, now, tiePolicy, docs, mf, hist, crashes, memvars, thrvars>>

\* mutation: no check for a registered processor
start_worker_Unchecked(running, processor) ==
    IF running
    THEN [ raises |-> FALSE, worker_running |-> running, starts |-> FALSE ]
    ELSE [ raises |-> FALSE, worker_running |-> TRUE, starts |-> TRUE ]

\* start_worker: what it does given self.worker_running and whether
\* self.processor_func is set
start_worker(running, processor) ==
    IF running
    THEN [ raises |-> FALSE, worker_running |-> running, starts |-> FALSE ]
    ELSE IF ~ processor
    THEN [ raises |-> TRUE, worker_running |-> running, starts |-> FALSE ]
    ELSE [ raises |-> FALSE, worker_running |-> TRUE, starts |-> TRUE ]

\* a host calls start_worker: on the fresh object, while the worker runs,
\* or after stop_worker has returned; a ValueError ends the host's startup
ApiStartWorker ==
    LET r == start_worker(worker_running, processor_func)
    IN  /\ proc \in {"loaded", "serving", "stopped"}
        /\ r.starts => FreeThreads # {}
        /\ worker_running' = r.worker_running
        /\ IF r.starts THEN SpawnWorker ELSE pc' = pc
        /\ hist' = IF r.starts THEN ThreadStarted(hist, LiveThreads) ELSE hist
        /\ proc' = IF r.raises THEN "start_failed"
                   ELSE IF r.starts THEN "serving" ELSE proc
        /\ UNCHANGED <<dbvars, now, tiePolicy, docs, mf, crashes, processor_func,
                       status_checker_func, wjob>>

\* the process dies (crash, kill, or exit after shutdown): memory is lost,
\* the database file stays
Crash ==
    /\ proc # "down"
    /\ crashes < MaxCrashes
    /\ crashes' = crashes + 1
    /\ proc' = "down"
    /\ worker_running' = FALSE
    /\ processor_func' = FALSE
    /\ status_checker_func' = FALSE
    /\ pc' = [t \in Threads |-> "none"]
    /\ wjob' = [t \in Threads |-> <<>>]
    /\ mf' = [c \in Callers |-> <<>>]
    /\ UNCHANGED <<dbvars, now, tiePolicy, docs, hist>>

\* the server is started again: DocumentQueue(db_path) on the existing file
Restart ==
    /\ proc = "down"
    /\ proc' = "loaded"
    /\ UNCHANGED <<dbvars, now, tiePolicy, docs, mf, hist, crashes, memvars, thrvars>>

\* one second passes
Tick ==
    /\ now < MaxTicks
    /\ now' = now + 1
    /\ UNCHANGED <<dbvars, tiePolicy, docs, mf, hist, proc, crashes, memvars, thrvars>>

\* ---------------------------------------------------------- public calls
Enqueue(n, d, c, p, max) ==
    /\ proc = "serving"
    /\ nextId <= max
    /\ jobs' = enqueue(jobs, nextId, n, d, c, p, now)
    /\ nextId' = nextId + 1
    /\ UNCHANGED <<now, tiePolicy, docs, mf, hist, proc, crashes, memvars, thrvars>>

ApiMarkProcessing(id) ==
    /\ proc = "serving"
    /\ jobs' = mark_processing(jobs, id, now)
    /\ UNCHANGED <<nextId, now, tiePolicy, docs, mf, hist, proc, crashes, memvars, thrvars>>

ApiMarkCompleted(id) ==
    /\ proc = "serving"
    /\ jobs' = mark_completed(jobs, id, now)
    /\ UNCHANGED <<nextId, now, tiePolicy, docs, mf, hist, proc, crashes, memvars, thrvars>>

ApiMarkFailed(id, e) ==
    /\ proc = "serving"
    /\ jobs' = mark_failed(jobs, id, e, now)
    /\ UNCHANGED <<nextId, now, tiePolicy, docs, mf, hist, proc, crashes, memvars, thrvars>>

\* POST /queue/recover-stuck
ApiRecover(timeout) ==
    /\ proc = "serving"
    /\ jobs' = recover_stuck_jobs(jobs, timeout, now)
    /\ UNCHANGED <<nextId, now, tiePolicy, docs, mf, hist, proc, crashes, memvars, thrvars>>

ApiClearOldJobs(days) ==
    /\ proc = "serving"
    /\ jobs' = clear_old_jobs(jobs, days, now)
    /\ UNCHANGED <<nextId, now, tiePolicy, docs, mf, hist, proc, crashes, memvars, thrvars>>

\* mark_failed, first statement: SELECT retry_count, max_retries FROM jobs
\* WHERE id = ?; the row (or None) and the arguments are the call's locals
mark_failed_read(js, id, err) ==
    IF id \in DOMAIN js
    THEN [ job_id |-> id, row |-> TRUE, retry_count |-> js[id].retry_count,
           max_retries |-> js[id].max_retries, error |-> err ]
    ELSE [ job_id |-> id, row |-> FALSE, retry_count |-> NULL,
           max_retries |-> NULL, error |-> err ]

\* mark_failed, second statement: the branch is chosen by the values read,
\* the UPDATE increments the retry_count the row has now
mark_failed_write(js, rd, t) ==
    [ j \in DOMAIN js |->
        IF rd.row /\ j = rd.job_id
        THEN IF rd.retry_count < rd.max_retries
             THEN [ js[j] EXCEPT !.status = "queued",
                      !.retry_count = js[j].retry_count + 1,
                      !.error = << "Retry", rd.retry_count + 1,
                                   rd.max_retries, rd.error >> ]
             ELSE [ js[j] EXCEPT !.status = "failed", !.failed_at = t,
                      !.error = << "Failed after", rd.max_retries,
                                   rd.error >> ]
        ELSE js[j] ]

\* a caller enters mark_failed(id, e), with an id that enqueue has handed
\* out, and its SELECT has returned
MarkFailedRead(c, id, e) ==
    /\ proc = "serving"
    /\ id < nextId
    /\ mf[c] = <<>>
    /\ mf' = [mf EXCEPT ![c] = << mark_failed_read(jobs, id, e) >>]
    /\ UNCHANGED <<dbvars, now, tiePolicy, docs, hist, proc, crashes, memvars,
                   thrvars>>

\* the caller's UPDATE and commit; mark_failed returns
MarkFailedWrite(c) ==
    /\ mf[c] # <<>>
    /\ jobs' = mark_failed_write(jobs, mf[c][1], now)
    /\ mf' = [mf EXCEPT ![c] = <<>>]
    /\ UNCHANGED <<nextId, now, tiePolicy, docs, hist, proc, crashes, memvars,
                   thrvars>>

\* get_job_status(id) is called: one SELECT, the store is left as it is
ApiGetJobStatus(id) ==
    /\ proc = "serving"
    /\ Len(get_job_status(jobs, id)) <= 1
    /\ UNCHANGED vars

\* GET /queue/status and GET /notebooks/{notebook_id}/queue/status
ApiGetStats(nb) ==
    /\ proc = "serving"
    /\ get_queue_stats(jobs, nb).total >= 0
    /\ jobs' = get_queue_stats_store(jobs, nb)
    /\ UNCHANGED <<nextId, now, tiePolicy, docs, mf, hist, proc, crashes, memvars, thrvars>>

\* ---------------------------------------------------------- specification
InitWith(observe) ==
    /\ jobs = <<>>
    /\ nextId = 1
    /\ now = 0
    /\ tiePolicy \in {"lowest", "highest"}
    /\ proc = "loaded"
    /\ crashes = 0
    /\ worker_running = FALSE
    /\ processor_func = FALSE
    /\ status_checker_func = FALSE
    /\ pc = [t \in Threads |-> "none"]
    /\ wjob = [t \in Threads |-> <<>>]
    /\ hist = [on |-> observe, calls |-> <<>>, fails |-> <<>>,
               stopped |-> {}, overlap |-> FALSE]
    /\ mf = [c \in Callers |-> <<>>]
    /\ docs = <<>>

Init == InitWith(FALSE)

LifeCycle ==
    \/ StartupRegister(TRUE)
    \/ StartupRecover
    \/ StartupStartWorker
    \/ Shutdown
    \/ Crash
    \/ Restart

Worker == \E t \in Threads : WorkerStep(t)

\* the queue driven through every public operation, in any order, next to
\* the worker loop and the process life cycle
Next ==
    \/ LifeCycle
    \/ StartupRegister(FALSE)
    \/ Tick
    \/ Worker
    \/ \E n \in Notebooks, d \in Documents, c \in Contents, p \in Priorities :
           Enqueue(n, d, c, p, MaxJobs)
    \/ \E id \in JobIds : ApiMarkProcessing(id)
    \/ \E id \in JobIds : ApiMarkCompleted(id)
    \/ \E id \in JobIds, e \in ExcTexts : ApiMarkFailed(id, e)
    \/ ApiRecover(NULL)
    \/ \E timeout \in TimeoutInputs : ApiRecover(timeout)
    \/ \E days \in DaysInputs : ApiClearOldJobs(days)
    \/ ApiStartWorker

Spec == Init /\ [][Next]_vars

\* the server as main.py runs it: only the worker marks jobs, requests
\* enqueue documents and may ask for stuck jobs to be recovered
SysNext ==
    \/ LifeCycle
    \/ Tick
    \/ Worker
    \/ \E n \in Notebooks, d \in Documents, c \in Contents, p \in Priorities :
           Enqueue(n, d, c, p, MaxSysJobs)
    \/ \E timeout \in TimeoutInputs : ApiRecover(timeout)

SysSpec == Init /\ [][SysNext]_vars

\* the worker serving a queue filled with jobs of several priorities; the
\* processor either raises or succeeds and is verified as completed
OrderWorker(t) ==
    \/ WorkerWhile(t)
    \/ WorkerDequeue(t)
    \/ WorkerSleep(t)
    \/ WorkerMarkProcessing(t)
    \/ ProcessorReturns(t)
    \/ \E e \in ExcTexts : ProcessorRaises(t, e)
    \/ WorkerVerify(t, <<"completed", "">>)

OrderNext ==
    \/ StartupRegister(TRUE)
    \/ StartupRecover
    \/ StartupStartWorker
    \/ Tick
    \/ \E t \in Threads : OrderWorker(t)
    \/ \E n \in Notebooks, d \in Documents, c \in Contents,
          p \in OrderPriorities : Enqueue(n, d, c, p, MaxOrderJobs)

OrderSpec == Init /\ [][OrderNext]_vars

\* the server with its worker running: no shutdown, boundedly many crashes,
\* each followed by a restart; the worker thread and the startup sequence
\* are scheduled, and the callbacks return or raise
LiveNext ==
    \/ StartupRegister(TRUE)
    \/ StartupRecover
    \/ StartupStartWorker
    \/ Crash
    \/ Restart
    \/ Tick
    \/ Worker
    \/ \E n \in Notebooks, d \in Documents, c \in Contents, p \in Priorities :
           Enqueue(n, d, c, p, MaxSysJobs)
    \/ \E timeout \in TimeoutInputs : ApiRecover(timeout)

LiveSpec ==
    /\ Init
    /\ [][LiveNext]_vars
    /\ WF_vars(Worker)
    /\ WF_vars(Restart)
    /\ WF_vars(StartupRegister(TRUE))
    /\ WF_vars(StartupRecover)
    /\ WF_vars(StartupStartWorker)

\* the server without crashes and without recovery calls after startup;
\* the worker's calls of the processor and of mark_failed are counted
RetryInit == InitWith(TRUE)

RetryNext ==
    \/ StartupRegister(TRUE)
    \/ StartupRecover
    \/ StartupStartWorker
    \/ Shutdown
    \/ Tick
    \/ Worker
    \/ \E n \in Notebooks, d \in Documents, c \in Contents, p \in Priorities :
           Enqueue(n, d, c, p, MaxSysJobs)

RetrySpec == RetryInit /\ [][RetryNext]_vars

\* the server without crashes, with a store and callbacks whose calls may
\* raise; the worker thread is scheduled and every call returns or raises
FaultNext ==
    \/ StartupRegister(TRUE)
    \/ StartupRecover
    \/ StartupStartWorker
    \/ Shutdown
    \/ Tick
    \/ \E t \in Threads : FaultWorker(t)
    \/ \E n \in Notebooks, d \in Documents, c \in Contents, p \in {0} :
           Enqueue(n, d, c, p, MaxSysJobs)

FaultSpec ==
    /\ Init
    /\ [][FaultNext]_vars
    /\ WF_vars(\E t \in Threads : FaultWorker(t))

\* a host that calls start_worker and stop_worker in any order, one call
\* after the other, next to the worker threads and the enqueue requests;
\* the processor either raises or succeeds and is verified as completed
CtlInit == InitWith(TRUE)

CtlNext ==
    \/ StartupRegister(TRUE)
    \/ StartupRecover
    \/ StartupStartWorker
    \/ Shutdown
    \/ JoinReturns
    \/ ApiStartWorker
    \/ \E t \in Threads : OrderWorker(t)
    \/ \E n \in Notebooks, d \in Documents, c \in Contents, p \in {0} :
           Enqueue(n, d, c, p, MaxSysJobs)

CtlSpec == CtlInit /\ [][CtlNext]_vars

\* callers on several threads inside mark_failed, statement by statement,
\* next to other status-changing calls on the store
RaceNext ==
    \/ StartupRegister(TRUE)
    \/ StartupRecover
    \/ StartupStartWorker
    \/ Tick
    \/ \E n \in Notebooks, d \in Documents, c \in Contents, p \in {0} :
           Enqueue(n, d, c, p, MaxJobs)
    \/ \E c \in Callers, id \in JobIds, e \in ExcTexts :
           MarkFailedRead(c, id, e)
    \/ \E c \in Callers : MarkFailedWrite(c)
    \/ \E id \in JobIds : ApiMarkProcessing(id)
    \/ \E id \in JobIds : ApiMarkCompleted(id)
    \/ ApiRecover(NULL)

RaceSpec == Init /\ [][RaceNext]_vars

\* the store holding jobs of two notebooks, driven through the public calls
ApiNext ==
    \/ StartupRegister(TRUE)
    \/ StartupRecover
    \/ StartupStartWorker
    \/ Tick
    \/ \E n \in StatsNotebooks, d \in Documents, c \in Contents,
          p \in {0} : Enqueue(n, d, c, p, MaxApiJobs)
    \/ \E id \in 1..MaxApiJobs : ApiMarkProcessing(id)
    \/ \E id \in 1..MaxApiJobs : ApiMarkCompleted(id)
    \/ \E id \in 1..MaxApiJobs, e \in ExcTexts : ApiMarkFailed(id, e)
    \/ ApiRecover(NULL)
    \/ \E days \in DaysInputs : ApiClearOldJobs(days)
    \/ \E nb \in StatsScopes : ApiGetStats(nb)
    \/ \E id \in 1..MaxApiJobs : ApiGetJobStatus(id)

ApiSpec == Init /\ [][ApiNext]_vars

\* the server next to the host's document ledger: documents are queued,
\* processed and recorded in documents.json, the process dies and is
\* started again; the processor either raises or succeeds and is verified
\* as completed
ReconNext ==
    \/ LifeCycle
    \/ Tick
    \/ \E t \in Threads : OrderWorker(t)
    \/ \E n \in Notebooks, d \in Documents, c \in Contents, p \in {0} :
           Enqueue(n, d, c, p, MaxSysJobs)
    \/ \E d \in LedgerDocs, st \in LedgerStatuses : LedgerWrite(d, st)

ReconSpec == Init /\ [][ReconNext]_vars

\* the server without crashes, serving documents that differ in notebook,
\* id and content; the worker's calls are counted
ProtoInit == InitWith(TRUE)

ProtoNext ==
    \/ StartupRegister(TRUE)
    \/ StartupRecover
    \/ StartupStartWorker
    \/ Tick
    \/ Worker
    \/ \E a \in JobArgs : Enqueue(a[1], a[2], a[3], 0, MaxSysJobs)

ProtoSpec == ProtoInit /\ [][ProtoNext]_vars

\* ================================================================ claims
Statuses == {"queued", "processing", "completed", "failed"}
Terminal == {"completed", "failed"}
RecoveryNotes ==
    { << "Recovered from server restart" >>, << "Recovered from stuck state" >> }
VerifierTexts == {"rag error", "Document processing failed"}

\* C1: in every reachable state every job in the store has
\* retry_count <= max_retries.
C1_RetryWithinBudget ==
    \A j \in Ids : jobs[j].retry_count <= jobs[j].max_retries

\* C1 witness: mark_failed has used up the whole budget of a job and
\* requeued it
C1_Witness ==
    \E j \in Ids :
        /\ jobs[j].retry_count = jobs[j].max_retries
        /\ jobs[j].status = "queued"
        /\ Len(jobs[j].error) = 4
        /\ jobs[j].error[1] = "Retry"

\* C2 as stated: a job whose retry_count equals max_retries has status failed.
C2_Original ==
    \A j \in Ids :
        jobs[j].retry_count = jobs[j].max_retries => jobs[j].status = "failed"

\* C2 amended: a job whose retry_count equals max_retries still has its last
\* attempt ahead.  In every step: a failed job is not queued afterwards; a
\* job at the bound that becomes queued does so from processing, by recovery,
\* with retry_count unchanged; and a failure recorded on a job at the bound
\* leaves it failed with retry_count unchanged.
C2_TerminalAtBound ==
    [][ \A j \in Ids \cap DOMAIN jobs' :
          /\ jobs[j].status = "failed" => jobs'[j].status # "queued"
          /\ ( /\ jobs[j].retry_count = jobs[j].max_retries
               /\ jobs[j].status # "queued"
               /\ jobs'[j].status = "queued" )
             => /\ jobs[j].status = "processing"
                /\ jobs'[j].error \in RecoveryNotes
                /\ jobs'[j].retry_count = jobs[j].retry_count
          /\ ( /\ jobs[j].retry_count = jobs[j].max_retries
               /\ jobs'[j].error # jobs[j].error
               /\ jobs'[j].error # <<>>
               /\ jobs'[j].error \notin RecoveryNotes )
             => /\ jobs'[j].status = "failed"
                /\ jobs'[j].failed_at = now
                /\ jobs'[j].retry_count = jobs[j].retry_count ]_vars

\* C2 witness: mark_failed has acted on a job at the bound
C2_Witness ==
    \E j \in Ids :
        /\ jobs[j].retry_count = jobs[j].max_retries
        /\ jobs[j].status = "failed"
        /\ jobs[j].failed_at # NULL
        /\ Len(jobs[j].error) = 3
        /\ jobs[j].error[1] = "Failed after"

\* C3: in a worker iteration whose processor returned normally and whose
\* status checker answers "failed", the job ends failed, or queued with one
\* more retry; it is not completed and completed_at is not stamped.
C3_SilentFailure ==
    [][ \A t \in Threads : \A res \in CheckerResults :
          ( /\ status_checker_func
            /\ res[1] = "failed"
            /\ WorkerVerify(t, res)
            /\ wjob[t][1].job_id \in Ids )
          => LET j == wjob[t][1].job_id
                 msg == IF res[2] # "" THEN res[2]
                        ELSE "Document processing failed"
             IN /\ j \in DOMAIN jobs'
                /\ jobs'[j].status \in {"failed", "queued"}
                /\ jobs'[j].status = "queued"
                     => /\ jobs[j].retry_count < jobs[j].max_retries
                        /\ jobs'[j].retry_count = jobs[j].retry_count + 1
                /\ jobs'[j].status = "failed"
                     => /\ jobs[j].retry_count = jobs[j].max_retries
                        /\ jobs'[j].retry_count = jobs[j].retry_count
                /\ jobs'[j].completed_at = jobs[j].completed_at
                /\ jobs'[j].error # <<>>
                /\ jobs'[j].error[Len(jobs'[j].error)] = msg ]_vars

\* C3 witness: a job permanently failed on the status checker's word
C3_Witness ==
    \E j \in Ids :
        /\ jobs[j].status = "failed"
        /\ jobs[j].completed_at = NULL
        /\ Len(jobs[j].error) = 3
        /\ jobs[j].error[3] \in VerifierTexts

\* C4: a crash leaves the store as it is, nothing touches the store while
\* the process is down or starting, and the startup recovery leaves every
\* job that was queued or processing queued with the retry_count it had.
C4_CrashRecovery ==
    [][ /\ Crash => jobs' = jobs
        /\ ( proc \in {"down", "loaded", "registered"} /\ ~ StartupRecover )
             => jobs' = jobs
        /\ StartupRecover
             => \A j \in Ids :
                  jobs[j].status \in {"queued", "processing"}
                  => /\ j \in DOMAIN jobs'
                     /\ jobs'[j].status = "queued"
                     /\ jobs'[j].retry_count = jobs[j].retry_count ]_vars

\* C4 witness: after a crash the restart has requeued a job that was being
\* processed on its second attempt
C4_Witness ==
    /\ crashes > 0
    /\ proc = "recovered"
    /\ \E j \in Ids :
         /\ jobs[j].status = "queued"
         /\ jobs[j].error = << "Recovered from server restart" >>
         /\ jobs[j].started_at # NULL
         /\ jobs[j].retry_count = 1

\* C5: every row has one of the four statuses, ids are never reused, and a
\* row leaves the store only in a clear_old_jobs step and only while it is
\* completed or failed.
C5_NoSilentLoss ==
    [][ /\ \A j \in DOMAIN jobs' : jobs'[j].status \in Statuses
        /\ \A j \in DOMAIN jobs' : j \in Ids \/ j = nextId
        /\ \A j \in Ids :
             j \notin DOMAIN jobs'
             => /\ jobs[j].status \in Terminal
                /\ \E days \in DaysInputs : ApiClearOldJobs(days) ]_vars

\* C5 witness: a job that was enqueued is gone (clear_old_jobs removed it)
C5_Witness ==
    /\ nextId > 1
    /\ \E j \in 1..(nextId - 1) : j \notin Ids

\* C7: get_next_job returns None exactly when no row is queued, and
\* otherwise a row whose status at the call is queued.
C7_DequeueOnlyQueued ==
    [][ \A t \in Threads :
          WorkerDequeue(t)
          => /\ wjob'[t] = <<>>
                  <=> ~ \E j \in Ids : jobs[j].status = "queued"
             /\ wjob'[t] # <<>>
                  => /\ wjob'[t][1].job_id \in Ids
                     /\ jobs[wjob'[t][1].job_id].status = "queued" ]_vars

\* C7 witness: the worker holds a dequeued job while another job is in the
\* store with a status other than queued
C7_Witness ==
    \E t \in Threads :
        /\ pc[t] = "mark"
        /\ wjob[t] # <<>>
        /\ \E j \in Ids : j # wjob[t][1].job_id /\ jobs[j].status # "queued"

\* C10: get_next_job writes nothing: the store is the same after the call,
\* and the same call made again returns the same job.
C10_DequeueReadOnly ==
    [][ \A t \in Threads :
          ( pc[t] = "dequeue" /\ pc'[t] \in {"mark", "sleep"} )
          => /\ jobs' = jobs
             /\ nextId' = nextId
             /\ wjob'[t] = get_next_job(jobs', tiePolicy) ]_vars

\* C10 witness: the worker has dequeued a job that has been started before
C10_Witness ==
    \E t \in Threads :
        /\ pc[t] = "mark"
        /\ wjob[t] # <<>>
        /\ wjob[t][1].job_id \in Ids
        /\ jobs[wjob[t][1].job_id].status = "queued"
        /\ jobs[wjob[t][1].job_id].started_at # NULL
        /\ jobs[wjob[t][1].job_id].retry_count > 0

\* C6: under the fairness of LiveSpec every enqueued job eventually is
\* completed or failed.
C6_EventuallyTerminal ==
    \A id \in 1..MaxSysJobs :
        (id \in Ids) ~> (id \in Ids /\ jobs[id].status \in Terminal)

\* C6 witness: a job that was retried and went through a crash and the
\* restart's recovery has reached a terminal status
C6_Witness ==
    /\ crashes > 0
    /\ proc = "serving"
    /\ \E j \in Ids :
         /\ jobs[j].status \in Terminal
         /\ jobs[j].retry_count > 0
         /\ jobs[j].started_at > jobs[j].created_at

\* C8: get_next_job returns a queued row of the highest priority among the
\* queued rows; with jobs 1, 2, 3 enqueued with priorities 1, 5, 3 it
\* returns job 2 while that is queued, else job 3, else job 1, so that
\* dequeuing and claiming serves them in the order 5, 3, 1.
Scenario153 ==
    /\ Ids = {1, 2, 3}
    /\ jobs[1].priority = 1
    /\ jobs[2].priority = 5
    /\ jobs[3].priority = 3

C8_PriorityOrder ==
    [][ \A t \in Threads :
          WorkerDequeue(t)
          => /\ wjob'[t] # <<>>
                  => \A k \in Ids :
                       jobs[k].status = "queued"
                       => jobs[k].priority
                            <= jobs[wjob'[t][1].job_id].priority
             /\ Scenario153
                  => wjob'[t] =
                       IF jobs[2].status = "queued" THEN <<JobDict(jobs, 2)>>
                       ELSE IF jobs[3].status = "queued"
                       THEN <<JobDict(jobs, 3)>>
                       ELSE IF jobs[1].status = "queued"
                       THEN <<JobDict(jobs, 1)>>
                       ELSE <<>> ]_vars

\* C8 witness: the three jobs of the scenario share one created_at and the
\* last of them, the job of priority 1, has been claimed
C8_Witness ==
    /\ Scenario153
    /\ jobs[1].created_at = jobs[2].created_at
    /\ jobs[2].created_at = jobs[3].created_at
    /\ jobs[1].status = "processing"
    /\ jobs[2].status = "completed"
    /\ jobs[3].status = "completed"
    /\ jobs[1].started_at > jobs[1].created_at
    /\ jobs[2].started_at > jobs[1].created_at
    /\ jobs[3].started_at > jobs[1].created_at

\* C9 as stated: of two queued jobs of equal priority, get_next_job never
\* returns the one enqueued later (ids are handed out in enqueue order).
C9_StrictFifo ==
    [][ \A t \in Threads :
          ( WorkerDequeue(t) /\ wjob'[t] # <<>> )
          => \A a \in Ids :
               ( /\ jobs[a].status = "queued"
                 /\ jobs[a].priority = jobs[wjob'[t][1].job_id].priority )
               => wjob'[t][1].job_id <= a ]_vars

\* C11: mark_failed(id, e) on a row of the store: with retry_count <
\* max_retries the row is queued afterwards, retry_count is one more, the
\* error is "Retry k/N: e" with k the new retry_count and N max_retries, and
\* failed_at is as before; otherwise the row is failed, failed_at is the
\* time of the call, retry_count is as before and the error is the terminal
\* message with e.  The ids in the store and every other field stay.
C11_MarkFailedEffect ==
    [][ \A j \in Ids : \A e \in ExcTexts :
          ApiMarkFailed(j, e)
          => /\ DOMAIN jobs' = Ids
             /\ jobs[j].retry_count < jobs[j].max_retries
                  => jobs'[j] =
                       [ jobs[j] EXCEPT
                           !.status = "queued",
                           !.retry_count = jobs[j].retry_count + 1,
                           !.error = << "Retry", jobs'[j].retry_count,
                                        jobs[j].max_retries, e >> ]
             /\ ~ (jobs[j].retry_count < jobs[j].max_retries)
                  => jobs'[j] =
                       [ jobs[j] EXCEPT
                           !.status = "failed",
                           !.failed_at = now,
                           !.error = << "Failed after",
                                        jobs[j].max_retries, e >> ]
             /\ jobs'[j].error[1] = "Retry"
                  => jobs'[j].retry_count = jobs[j].retry_count + 1 ]_vars

\* C11 witness: a job that never ran was failed once by a direct call
C11_Witness ==
    \E j \in Ids :
        /\ jobs[j].status = "queued"
        /\ jobs[j].retry_count = 1
        /\ jobs[j].error = << "Retry", 1, jobs[j].max_retries, "boom" >>
        /\ jobs[j].failed_at = NULL
        /\ jobs[j].started_at = NULL

\* the number counted for job j in the counter f
Counted(f, j) == IF j \in DOMAIN f THEN f[j] ELSE 0

\* C12: with one worker and no recovery the processor is invoked at most
\* max_retries + 1 times for a job; the worker's mark_failed calls for a job
\* never exceed the invocations; a job is failed exactly when mark_failed
\* was called max_retries + 1 times for it, and then it has been invoked
\* max_retries + 1 times, so that it is not processed again.
C12_BoundedAttempts ==
    \A j \in Ids :
        /\ Counted(hist.calls, j) <= jobs[j].max_retries + 1
        /\ Counted(hist.fails, j) <= Counted(hist.calls, j)
        /\ Counted(hist.fails, j) <= jobs[j].max_retries + 1
        /\ jobs[j].status = "failed"
             <=> Counted(hist.fails, j) = jobs[j].max_retries + 1
        /\ jobs[j].status = "failed"
             => Counted(hist.calls, j) = jobs[j].max_retries + 1
        /\ jobs[j].retry_count <= jobs[j].max_retries

\* C12 witness: every attempt of a job failed, the last one on the status
\* checker's word, and the job is failed after max_retries + 1 invocations
C12_Witness ==
    \E j \in Ids :
        /\ jobs[j].status = "failed"
        /\ Counted(hist.calls, j) = DefaultMaxRetries + 1
        /\ Counted(hist.fails, j) = DefaultMaxRetries + 1
        /\ jobs[j].error[3] \in VerifierTexts
        /\ \E t \in Threads : pc[t] = "sleep"

\* a recovery step: the startup recovery or a call of /queue/recover-stuck
RecoveryStep ==
    \/ StartupRecover
    \/ ApiRecover(NULL)
    \/ \E timeout \in TimeoutInputs : ApiRecover(timeout)

\* C13: mark_completed on a job that an earlier mark_completed completed
\* leaves it completed with no error and with the completed_at of the
\* earlier call.
C13_FirstCallWins ==
    [][ \A j \in Ids :
          ( ApiMarkCompleted(j) /\ jobs[j].status = "completed" )
          => /\ jobs'[j].status = "completed"
             /\ jobs'[j].error = <<>>
             /\ jobs'[j].completed_at = jobs[j].completed_at ]_vars

\* C14: once started_at, completed_at or failed_at of a job is stamped, no
\* step other than a recovery changes it.
C14_StampedOnce ==
    [][ \A j \in Ids \cap DOMAIN jobs' :
          ~ RecoveryStep
          => /\ jobs[j].started_at # NULL
                  => jobs'[j].started_at = jobs[j].started_at
             /\ jobs[j].completed_at # NULL
                  => jobs'[j].completed_at = jobs[j].completed_at
             /\ jobs[j].failed_at # NULL
                  => jobs'[j].failed_at = jobs[j].failed_at ]_vars

\* C15: in the running server no step takes a job from queued to completed
\* or failed: a queued job stays queued or becomes processing.
C15_NoSkip ==
    [][ \A j \in Ids \cap DOMAIN jobs' :
          jobs[j].status = "queued"
          => jobs'[j].status \in {"queued", "processing"} ]_vars

\* C16: no step takes a completed or failed job that stays in the store
\* back to queued or processing.
C16_TerminalAbsorbing ==
    [][ \A j \in Ids \cap DOMAIN jobs' :
          jobs[j].status \in Terminal
          => jobs'[j].status \in Terminal ]_vars

\* C17: clear_old_jobs leaves every queued or processing row in the store
\* with every field as it was, whatever timestamps the row carries, and
\* returns the number of rows that left the store.
C17_ClearKeepsLive ==
    [][ \A days \in DaysInputs :
          ApiClearOldJobs(days)
          => /\ \A j \in Ids :
                  jobs[j].status \in {"queued", "processing"}
                  => j \in DOMAIN jobs' /\ jobs'[j] = jobs[j]
             /\ DOMAIN jobs' \subseteq Ids
             /\ clear_old_jobs_rowcount(jobs, days, now)
                  = Cardinality(Ids \ DOMAIN jobs') ]_vars

\* C17 witness: while one job has been removed, a queued or processing job
\* carrying a terminal timestamp older than the threshold of
\* clear_old_jobs(0) is in the store
C17_Witness ==
    /\ proc = "serving"
    /\ \E i \in 1..(nextId - 1) : i \notin Ids
    /\ \E j \in Ids :
         /\ jobs[j].status \in {"queued", "processing"}
         /\ \/ SqlLt(jobs[j].completed_at, now)
            \/ SqlLt(jobs[j].failed_at, now)

\* C18: clear_old_jobs(days) removes a job only if the timestamp of its
\* current terminal status (completed_at of a completed job, failed_at of a
\* failed job) is older than days days.
C18_OwnTimestamp ==
    [][ \A days \in DaysInputs :
          ApiClearOldJobs(days)
          => \A j \in Ids :
               j \notin DOMAIN jobs'
               => \/ /\ jobs[j].status = "completed"
                     /\ SqlLt(jobs[j].completed_at, now - days * SecondsPerDay)
                  \/ /\ jobs[j].status = "failed"
                     /\ SqlLt(jobs[j].failed_at, now - days * SecondsPerDay) ]_vars

\* the rows of js that get_queue_stats(nb) is about
InScope(js, nb) ==
    IF nb = "" THEN DOMAIN js
    ELSE { j \in DOMAIN js : js[j].notebook_id = nb }

C20_RecoverAll ==
    [][ ( StartupRecover \/ ApiRecover(NULL) )
        => /\ DOMAIN jobs' = Ids
           /\ \A j \in Ids :
                /\ jobs'[j].status # "processing"
                /\ jobs[j].status = "processing"
                     => jobs'[j] =
                          [ jobs[j] EXCEPT
                              !.status = "queued",
                              !.error = << "Recovered from server restart" >> ]
                /\ jobs[j].status # "processing" => jobs'[j] = jobs[j]
           /\ recover_stuck_jobs_rowcount(jobs, NULL, now)
                = Cardinality({ j \in Ids : jobs[j].status = "processing" })
         ]_vars

\* C20 witness: of two jobs the one that was processing on its second
\* attempt is queued with the restart annotation, next to a completed job
C20_Witness ==
    /\ proc = "serving"
    /\ \E i, j \in Ids :
         /\ jobs[i].status = "queued"
         /\ jobs[i].error = << "Recovered from server restart" >>
         /\ jobs[i].retry_count = 1
         /\ jobs[i].started_at # NULL
         /\ jobs[j].status = "completed"

\* C21: recover_stuck_jobs(timeout) with a timeout changes a row only if the
\* row is processing and its started_at is more than timeout seconds before
\* the call; such a row becomes queued with the stuck-state annotation; a
\* processing row started within the last timeout seconds and every row
\* that is not processing keep every field; no row is added or removed.
C21_TimerRecovery ==
    [][ \A timeout \in TimeoutInputs :
          ApiRecover(timeout)
          => /\ DOMAIN jobs' = Ids
             /\ \A j \in Ids :
                  IF /\ jobs[j].status = "processing"
                     /\ jobs[j].started_at # NULL
                     /\ jobs[j].started_at < now - timeout
                  THEN jobs'[j] =
                         [ jobs[j] EXCEPT
                             !.status = "queued",
                             !.error = << "Recovered from stuck state" >> ]
                  ELSE jobs'[j] = jobs[j] ]_vars

\* C21 witness: one job was requeued by the timer recovery while the worker
\* holds it, and time has passed since its start
C21_Witness ==
    /\ proc = "serving"
    /\ \E j \in Ids :
         /\ jobs[j].status = "queued"
         /\ jobs[j].error = << "Recovered from stuck state" >>
         /\ jobs[j].started_at # NULL
         /\ jobs[j].started_at < now
         /\ \E t \in Threads :
              /\ pc[t] \in {"run", "verify"}
              /\ wjob[t] # <<>>
              /\ wjob[t][1].job_id = j

\* C22: with a status checker registered, the verification step of the
\* worker leaves the job completed exactly when the checker answered
\* "completed"; on an answer that is neither "completed" nor "failed" the
\* job is failed or requeued by mark_failed with the error naming the
\* answer, and completed_at is not stamped.
C22_UnexpectedStatusFails ==
    [][ \A t \in Threads : \A res \in CheckerResults :
          ( /\ status_checker_func
            /\ WorkerVerify(t, res)
            /\ wjob[t][1].job_id \in Ids )
          => LET j == wjob[t][1].job_id
             IN /\ j \in DOMAIN jobs'
                /\ jobs'[j].status = "completed" <=> res[1] = "completed"
                /\ res[1] \notin {"completed", "failed"}
                     => /\ jobs' = mark_failed(jobs, j,
                                               OtherStatusError(res[1]), now)
                        /\ jobs'[j].status \in {"queued", "failed"}
                        /\ jobs'[j].completed_at = jobs[j].completed_at
                        /\ jobs'[j].error[Len(jobs'[j].error)]
                             = OtherStatusError(res[1]) ]_vars

\* C22 witness: the worker has finished an iteration in which the checker
\* answered "processing", and the job carries that answer as its error
C22_Witness ==
    /\ status_checker_func
    /\ \E j \in Ids :
         /\ jobs[j].status \in {"queued", "failed"}
         /\ jobs[j].completed_at = NULL
         /\ jobs[j].error # <<>>
         /\ jobs[j].error[Len(jobs[j].error)] = OtherStatusError("processing")
         /\ \E t \in Threads :
              pc[t] = "while" /\ wjob[t] # <<>> /\ wjob[t][1].job_id = j

\* C23: with no status checker registered, the step of the worker after a
\* normal return of the processor is mark_completed for the job (completed,
\* no error, completed_at the time of the step), and the step after the
\* processor raised e is mark_failed for the job with e.
C23_DegradedMode ==
    [][ \A t \in Threads :
          ( ~ status_checker_func /\ wjob[t] # <<>> )
          => LET j == wjob[t][1].job_id
             IN /\ \A res \in CheckerResults :
                     WorkerVerify(t, res)
                     => /\ jobs' = mark_completed(jobs, j, now)
                        /\ j \in Ids
                             => /\ jobs'[j].status = "completed"
                                /\ jobs'[j].error = <<>>
                                /\ jobs'[j].completed_at = now
                /\ \A e \in ExcTexts :
                     ProcessorRaises(t, e)
                     => /\ jobs' = mark_failed(jobs, j, e, now)
                        /\ j \in Ids
                             => /\ jobs'[j].status \in {"queued", "failed"}
                                /\ jobs'[j].error[Len(jobs'[j].error)] = e
              ]_vars

\* C23 witness: on a server without status checker the worker has completed
\* a job on its second attempt
C23_Witness ==
    /\ ~ status_checker_func
    /\ proc = "serving"
    /\ \E j \in Ids :
         /\ jobs[j].status = "completed"
         /\ jobs[j].retry_count = 1
         /\ jobs[j].started_at # NULL
         /\ jobs[j].error = <<>>
         /\ \E t \in Threads :
              pc[t] = "while" /\ wjob[t] # <<>> /\ wjob[t][1].job_id = j

\* C24: an exception of mark_processing, of the status checker or of the
\* verification's mark_completed or mark_failed does not lead to
\* mark_failed: the job's row is as before, retry_count included, and the
\* loop suspends before it continues.
C24_OnlyProcessorCounts ==
    [][ \A t \in Threads : \A e \in ExcTexts :
          ( /\ MarkProcessingRaises(t, e) \/ VerifyRaises(t, e)
            /\ wjob[t][1].job_id \in Ids )
          => /\ jobs'[wjob[t][1].job_id].retry_count
                  = jobs[wjob[t][1].job_id].retry_count
             /\ pc'[t] = "sleep" ]_vars

\* C25: a worker thread ends only at the head of the loop with
\* worker_running false; and while worker_running holds, from every place
\* of the loop body, whatever the iteration's outcome, the thread comes to
\* call get_next_job again.
C25_LoopGoesOn ==
    /\ [][ \A t \in Threads :
             ( pc[t] # "none" /\ pc'[t] = "none" )
             => pc[t] = "while" /\ ~ worker_running ]_vars
    /\ \A t \in Threads :
         ( pc[t] \in {"mark", "run", "verify", "sleep", "while"}
           /\ worker_running )
         ~> ( pc[t] = "dequeue" \/ ~ worker_running )

\* C25 witness: after an iteration that ended in the outer except, with
\* its job left processing, the worker has dequeued the next queued job
C25_Witness ==
    /\ worker_running
    /\ \E t \in Threads :
         /\ pc[t] = "mark"
         /\ wjob[t] # <<>>
         /\ \E j \in Ids :
              /\ j # wjob[t][1].job_id
              /\ jobs[j].status = "processing"

\* C26: start_worker on an object with no processor registered raises, no
\* thread enters the loop, worker_running stays false, and the store is as
\* before.
C26_StartNeedsProcessor ==
    [][ ( ApiStartWorker /\ ~ processor_func /\ ~ worker_running )
        => /\ start_worker(worker_running, processor_func).raises
           /\ proc' = "start_failed"
           /\ worker_running' = FALSE
           /\ pc' = pc
           /\ LiveThreads = {}
           /\ jobs' = jobs
           /\ nextId' = nextId ]_vars

\* C26 witness: start_worker has raised on a restarted server whose store
\* holds a job half way through its retries
C26_Witness ==
    /\ proc = "start_failed"
    /\ crashes > 0
    /\ ~ worker_running
    /\ ~ processor_func
    /\ \A t \in Threads : pc[t] = "none"
    /\ \E j \in Ids : jobs[j].status = "queued" /\ jobs[j].retry_count = 1

\* C27: a thread that was in the loop when stop_worker was called ends at
\* its next arrival at the loop head: it starts no further iteration and so
\* calls get_next_job at most for the iteration it was in.
C27_StoppedLoopExits ==
    [][ \A t \in Threads :
          ( WorkerWhile(t) /\ t \in hist.stopped ) => pc'[t] = "none" ]_vars

\* C28: at every instant at most one thread is in the worker loop and at
\* most one call of the processor is in progress.
C28_OneLoop ==
    /\ Cardinality(LiveThreads) <= 1
    /\ Cardinality({ t \in Threads : pc[t] = "run" }) <= 1

\* two threads have got the same job from get_next_job and neither has yet
\* called mark_processing
DoubleClaim ==
    \E t, u \in Threads :
        /\ t # u
        /\ pc[t] = "mark" /\ pc[u] = "mark"
        /\ wjob[t] # <<>> /\ wjob[u] # <<>>
        /\ wjob[t][1].job_id = wjob[u][1].job_id

\* C29: as long as no two worker loops have been alive together, a worker's
\* mark_processing finds its job queued, the processor has been invoked for
\* a job at most once per attempt, and no two threads hold the same job
\* between get_next_job and mark_processing.
C29_SingleLoopSafe ==
    [][ ~ hist'.overlap
        => /\ \A t \in Threads :
                WorkerMarkProcessing(t)
                => /\ wjob[t][1].job_id \in Ids
                   /\ jobs[wjob[t][1].job_id].status = "queued"
           /\ \A j \in DOMAIN jobs' :
                Counted(hist'.calls, j) <= jobs'[j].retry_count + 1
           /\ ~ DoubleClaim' ]_vars

\* C29 witness: with two loops alive, both hold the same queued job before
\* either has called mark_processing
C29_Witness ==
    /\ DoubleClaim
    /\ hist.overlap
    /\ \E t \in Threads :
         /\ pc[t] = "mark"
         /\ jobs[wjob[t][1].job_id].status = "queued"

\* C30: when a caller's mark_failed writes, the row has the retry_count
\* the call read and decided on, so that the call acts like one atomic
\* step; and retry_count never exceeds max_retries, whatever calls overlap.
C30_MarkFailedAtomic ==
    [][ /\ \A c \in Callers :
             ( MarkFailedWrite(c) /\ mf[c][1].job_id \in Ids )
             => /\ mf[c][1].retry_count = jobs[mf[c][1].job_id].retry_count
                /\ jobs' = mark_failed(jobs, mf[c][1].job_id,
                                       mf[c][1].error, now)
        /\ \A j \in DOMAIN jobs' :
             jobs'[j].retry_count <= jobs'[j].max_retries ]_vars

\* C31: enqueue adds exactly one row, under an id never handed out before,
\* with status queued, retry_count 0 and the notebook, document, content
\* and priority it was given; it leaves every row already in the table as
\* it is; the row is committed when enqueue returns, so the death of the
\* process and its restart leave the table, the new row included, as it is.
C31_EnqueueDurable ==
    /\ [][ \A n \in Notebooks, d \in Documents, c \in Contents,
             p \in Priorities :
               Enqueue(n, d, c, p, MaxSysJobs) =>
                 /\ \A j \in DOMAIN jobs : j < nextId
                 /\ DOMAIN jobs' = DOMAIN jobs \cup {nextId}
                 /\ nextId \notin DOMAIN jobs
                 /\ jobs'[nextId].status = "queued"
                 /\ jobs'[nextId].retry_count = 0
                 /\ jobs'[nextId].notebook_id = n
                 /\ jobs'[nextId].document_id = d
                 /\ jobs'[nextId].content = c
                 /\ jobs'[nextId].priority = p
                 /\ \A j \in DOMAIN jobs : jobs'[j] = jobs[j] ]_vars
    /\ [][ (Crash \/ Restart) => jobs' = jobs ]_vars

\* the process died with two jobs in the table, one of them still as
\* enqueue wrote it
C31_Witness ==
    /\ proc = "down"
    /\ Cardinality(DOMAIN jobs) = 2
    /\ \E j \in DOMAIN jobs :
          /\ jobs[j].status = "queued"
          /\ jobs[j].retry_count = 0
          /\ jobs[j].error = <<>>
          /\ jobs[j].started_at = NULL

\* C32: cleanup_stuck_documents, for every document whose ledger status is
\* "processing", looks at the document's most recently created job (the
\* jobs of the document with the greatest created_at): if it is completed
\* the entry becomes failed; if it is failed the entry becomes failed with
\* the job's error; if the document has no job the entry becomes failed
\* with the "no queue job" message; and the pass never sets an entry to
\* completed.
C32_Reconciliation ==
    [][ StartupRegister(TRUE) =>
          /\ \A d \in DOMAIN docs :
                docs[d].status = "processing" =>
                  LET S == LatestJobs(jobs, d)
                  IN  /\ S = {} =>
                            docs'[d] = [ status |-> "failed",
                                         error |-> NoJobError ]
                      /\ (S # {} /\ \A j \in S : jobs[j].status = "completed")
                            => docs'[d].status = "failed"
                      /\ (S # {} /\ \A j \in S : jobs[j].status = "failed")
                            => /\ docs'[d].status = "failed"
                               /\ \E j \in S : docs'[d].error = jobs[j].error
                               /\ docs'[d].error # <<>>
          /\ DOMAIN docs' = DOMAIN docs
          /\ \A d \in DOMAIN docs :
                docs'[d].status = "completed" => docs[d].status = "completed"
      ]_vars

\* after a restart the pass has failed the entry of a document whose job
\* had failed for good, and the entry of a document without any job
C32_Witness ==
    /\ proc = "registered"
    /\ crashes = 1
    /\ \E d \in DOMAIN docs, j \in DOMAIN jobs :
          /\ jobs[j].document_id = d
          /\ jobs[j].status = "failed"
          /\ docs[d].status = "failed"
          /\ docs[d].error = jobs[j].error
    /\ \E d \in DOMAIN docs :
          /\ docs[d].status = "failed"
          /\ docs[d].error = NoJobError

\* C33: on every startup recover_stuck_jobs(None) has returned before
\* start_worker is called: when the worker loop is started, and whenever
\* the loop is about to call get_next_job (its first call included), no job
\* has status processing; and every job the previous process left in
\* processing is queued, hence eligible for get_next_job, after the
\* recovery step of the startup.
C33_StartupOrdering ==
    /\ [][ StartupStartWorker =>
             /\ proc = "recovered"
             /\ \A j \in DOMAIN jobs : jobs[j].status # "processing" ]_vars
    /\ [][ StartupRecover =>
             \A j \in DOMAIN jobs :
                jobs[j].status = "processing" => Eligible(jobs'[j]) ]_vars
    /\ [] ( \A t \in Threads :
               pc[t] = "dequeue" =>
                 \A j \in DOMAIN jobs : jobs[j].status # "processing" )

\* after a crash during a callback and a restart, the loop is about to
\* dequeue for the first time and the orphaned job is queued again
C33_Witness ==
    /\ crashes = 1
    /\ proc = "serving"
    /\ \E t \in Threads : pc[t] = "dequeue" /\ wjob[t] = <<>>
    /\ \E j \in DOMAIN jobs :
          /\ jobs[j].status = "queued"
          /\ jobs[j].started_at # NULL
          /\ jobs[j].error = << "Recovered from server restart" >>

\* the texts the worker passes to mark_failed
WorkerErrors ==
    ExcTexts \cup { "rag error", "Document processing failed" }
             \cup { OtherStatusError(r[1]) : r \in CheckerResults }

\* C34: in every iteration of the worker loop that got a job from
\* get_next_job, mark_processing(job) is the next call; the processor is
\* invoked only after it, with the notebook_id, document_id and content of
\* that job's row; when the processor has ended, exactly one of
\* mark_completed(job) and mark_failed(job) is called before the loop calls
\* get_next_job again (so each job has as many processor calls as
\* mark_failed calls, plus one if it is completed or inside its callback).
C34_IterationProtocol ==
    /\ [][ \A t \in Threads :
             /\ (pc[t] = "dequeue" /\ pc'[t] # "dequeue") =>
                   /\ wjob'[t] = get_next_job(jobs, tiePolicy)
                   /\ pc'[t] = IF wjob'[t] # <<>> THEN "mark" ELSE "sleep"
             /\ (pc[t] = "mark" /\ pc'[t] # "mark") =>
                   /\ pc'[t] = "run"
                   /\ jobs' = mark_processing(jobs, wjob[t][1].job_id, now)
                   /\ wjob'[t] = wjob[t]
             /\ (pc[t] # "run" /\ pc'[t] = "run") =>
                   /\ pc[t] = "mark"
                   /\ jobs'[wjob[t][1].job_id].status = "processing"
                   /\ wjob[t][1].notebook_id
                        = jobs[wjob[t][1].job_id].notebook_id
                   /\ wjob[t][1].document_id
                        = jobs[wjob[t][1].job_id].document_id
                   /\ wjob[t][1].content = jobs[wjob[t][1].job_id].content
             /\ (pc[t] = "run" /\ pc'[t] = "verify") => jobs' = jobs
             /\ (pc[t] = "run" /\ pc'[t] \notin {"run", "verify"}) =>
                   /\ pc'[t] = "while"
                   /\ \E e \in WorkerErrors :
                         jobs' = mark_failed(jobs, wjob[t][1].job_id, e, now)
             /\ (pc[t] = "verify" /\ pc'[t] # "verify") =>
                   /\ pc'[t] = "while"
                   /\ \/ jobs' = mark_completed(jobs, wjob[t][1].job_id, now)
                      \/ \E e \in WorkerErrors :
                           jobs' = mark_failed(jobs, wjob[t][1].job_id, e, now)
             /\ (pc[t] \in {"while", "sleep", "dequeue"}) =>
                   \A j \in DOMAIN jobs : jobs'[j] = jobs[j]
          ]_vars
    /\ [] ( \A j \in DOMAIN jobs :
               Counted(hist.calls, j) =
                   Counted(hist.fails, j)
                 + ( IF jobs[j].status = "completed" THEN 1 ELSE 0 )
                 + ( IF \E t \in Threads :
                          /\ pc[t] \in {"run", "verify"}
                          /\ wjob[t][1].job_id = j
                     THEN 1 ELSE 0 ) )

\* the loop is inside the processor for the second attempt of a job of the
\* second notebook, after the first attempt was marked failed
C34_Witness ==
    \E t \in Threads :
        /\ pc[t] = "run"
        /\ wjob[t] # <<>>
        /\ wjob[t][1].content = "c2"
        /\ wjob[t][1].notebook_id = "n2"
        /\ jobs[wjob[t][1].job_id].status = "processing"
        /\ Counted(hist.calls, wjob[t][1].job_id) = 2
        /\ Counted(hist.fails, wjob[t][1].job_id) = 1
        /\ \E k \in DOMAIN jobs : jobs[k].content = "c1"

\* the jobs whose status is processing
Processing(js) == { j \in DOMAIN js : js[j].status = "processing" }

C36_TerminalShape ==
    \A j \in DOMAIN jobs :
        /\ jobs[j].status = "failed" =>
              /\ jobs[j].retry_count = jobs[j].max_retries
              /\ jobs[j].error # <<>>
              /\ jobs[j].failed_at # NULL
        /\ jobs[j].status = "completed" =>
              /\ jobs[j].error = <<>>
              /\ jobs[j].completed_at # NULL

\* a job is completed after a failed attempt, without the attempt's error
C36_Witness ==
    \E j \in DOMAIN jobs :
        /\ jobs[j].status = "completed"
        /\ jobs[j].retry_count > 0
        /\ jobs[j].error = <<>>
        /\ \E t \in Threads : wjob[t] # <<>> /\ wjob[t][1].job_id = j

\* a job that was put back in the queue by mark_failed or by recovery
Requeued(row) == row.status = "queued" /\ row.error # <<>>

\* C37: a job requeued by mark_failed or by recovery keeps its created_at
\* and priority, and the next get_next_job returns it ahead of every job of
\* the same or a lower priority that was enqueued after it: get_next_job
\* never returns a job while a requeued job of the same or a higher
\* priority, enqueued before it, is waiting.
C37_RetryKeepsPosition ==
    [][ \A t \in Threads :
          ( WorkerDequeue(t) /\ wjob'[t] # <<>> ) =>
            LET got == wjob'[t][1].job_id
            IN  ~ \E a \in DOMAIN jobs :
                    /\ Requeued(jobs[a])
                    /\ a < got
                    /\ jobs[got].priority <= jobs[a].priority ]_vars

\* C38: no operation changes the notebook_id, document_id, content,
\* priority, created_at or max_retries of a row that stays in the table (its
\* id is its key); retry_count never decreases, and when it changes the
\* step is the retry branch of a mark_failed call for that job, which adds
\* exactly 1 (mark_processing, mark_completed, recovery and cleanup leave
\* it as it is).
C38_Immutable ==
    [][ \A j \in DOMAIN jobs \cap DOMAIN jobs' :
          /\ jobs'[j].notebook_id = jobs[j].notebook_id
          /\ jobs'[j].document_id = jobs[j].document_id
          /\ jobs'[j].content = jobs[j].content
          /\ jobs'[j].priority = jobs[j].priority
          /\ jobs'[j].created_at = jobs[j].created_at
          /\ jobs'[j].max_retries = jobs[j].max_retries
          /\ jobs'[j].retry_count >= jobs[j].retry_count
          /\ jobs'[j].retry_count # jobs[j].retry_count =>
                /\ jobs'[j].retry_count = jobs[j].retry_count + 1
                /\ RetryBranch(jobs[j])
                /\ \E e \in WorkerErrors :
                      jobs' = mark_failed(jobs, j, e, now) ]_vars

\* a job on its third attempt, a second after it was enqueued
C38_Witness ==
    \E j \in DOMAIN jobs :
        /\ jobs[j].retry_count = 2
        /\ jobs[j].status = "processing"
        /\ jobs[j].created_at = 0
        /\ jobs[j].started_at = 1

\* C39: cleanup_stuck_documents writes nothing to the jobs table, leaves
\* every ledger entry whose status is not "processing" as it is, and leaves
\* a "processing" entry as it is when the most recently created job of the
\* document (the jobs of the document with the greatest created_at) is
\* queued or processing.
C39_ReconciliationFrame ==
    [][ StartupRegister(TRUE) =>
          /\ jobs' = jobs
          /\ nextId' = nextId
          /\ \A d \in DOMAIN docs :
                /\ docs[d].status # "processing" => docs'[d] = docs[d]
                /\ ( /\ docs[d].status = "processing"
                     /\ LatestJobs(jobs, d) # {}
                     /\ \A j \in LatestJobs(jobs, d) :
                           jobs[j].status \in {"queued", "processing"} )
                    => docs'[d] = docs[d] ]_vars

\* after a crash inside the processor and a restart, the pass has run: the
\* document's job is still in processing, its entry still says processing,
\* and the entry of a completed document is as it was
C39_Witness ==
    /\ proc = "registered"
    /\ crashes = 1
    /\ \E d \in DOMAIN docs, j \in DOMAIN jobs :
          /\ docs[d].status = "processing"
          /\ jobs[j].document_id = d
          /\ jobs[j].status = "processing"
    /\ \E d \in DOMAIN docs : docs[d].status = "completed"

\* C40: mark_processing, mark_completed and mark_failed called with an id
\* that is not in the table (never handed out, or deleted by
\* clear_old_jobs) leave the table as it is: no row is created and no row
\* is changed; get_job_status returns None for such an id.
C40_UnknownIdNoOp ==
    \A id \in 1..(MaxApiJobs + 1) :
        id \notin DOMAIN jobs =>
            /\ mark_processing(jobs, id, now) = jobs
            /\ mark_completed(jobs, id, now) = jobs
            /\ \A e \in ExcTexts : mark_failed(jobs, id, e, now) = jobs
            /\ get_job_status(jobs, id) = <<>>

\* a job was deleted by clear_old_jobs while another job is in the table
C40_Witness ==
    /\ \E id \in 1..MaxApiJobs : id < nextId /\ id \notin DOMAIN jobs
    /\ \E j \in DOMAIN jobs : jobs[j].status = "processing"

====
